---- MODULE Spec2Model ----
(***************************************************************************)
(* Model of the theme settings manager, src/src/context/ThemeContext.tsx.   *)
(*                                                                          *)
(* The provider keeps ten pieces of React state.  A setter closes over the  *)
(* values of the render it was created in, so the model keeps two copies:   *)
(* `state' is what the useState hooks hold (every setXState call lands      *)
(* there) and `rendered' is the snapshot the setters of the last render     *)
(* read.  Render copies the first to the second.                            *)
(*                                                                          *)
(* Two smaller machines share the module: isLightColor applied to a colour  *)
(* (SpecLight) and the payment test button, src/unnamed/part_000            *)
(* (SpecPayment).  Each specification moves its own variables and leaves    *)
(* the others at rest.                                                      *)
(***************************************************************************)
EXTENDS Integers, Sequences, FiniteSets, Bags, TLC

VARIABLES
    state,          \* the useState values, ThemeContext.tsx:124-133
    rendered,       \* the values closed over by the setters of the last render
    localStorage,   \* the browser's localStorage, one entry per key
    remote,         \* the user_profiles row of the user: its theme_settings
    pc,             \* position of loadThemeSettings
    loadPath,       \* where loadThemeSettings took the values from
    inflight,       \* bag of the saveThemeToDatabase calls that have not returned
    toastShown,     \* whether saveThemeToDatabase raised its toast
    calls,          \* number of setter calls made so far
    reloads,        \* number of times the page was reloaded
    before,         \* at the last reload: the state in memory, the calls made
    probe,          \* a colour handed to isLightColor and what it returned
    button          \* PaymentTestButton: its state and the rows it works on

themeVars == <<state, rendered, localStorage, remote, pc, loadPath, inflight,
               toastShown, calls, reloads, before>>

vars == <<state, rendered, localStorage, remote, pc, loadPath, inflight,
          toastShown, calls, reloads, before, probe, button>>

-----------------------------------------------------------------------------
(* Bounds of the model.                                                     *)

MaxCalls == 2
MaxReloads == 1
MaxClicks == 3

-----------------------------------------------------------------------------
(* Status keys and hardcoded defaults.                                      *)

StatusKeys == <<"completed", "in-progress", "delayed", "analysis">>

StatusKeySet == {StatusKeys[i] : i \in 1..Len(StatusKeys)}

DEFAULT_STATUS_COLORS ==
    [k \in StatusKeySet |->
        CASE k = "completed"   -> "#F2FCE2"
          [] k = "in-progress" -> "#D3E4FD"
          [] k = "delayed"     -> "#FFCCCB"
          [] k = "analysis"    -> "#FEF7CD"]

DEFAULT_TEXT_COLORS ==
    [k \in StatusKeySet |->
        CASE k = "completed"   -> "#1e3a1e"
          [] k = "in-progress" -> "#1e3a5a"
          [] k = "delayed"     -> "#8B0000"
          [] k = "analysis"    -> "#3a351e"]

DefaultState ==
    [headerColor          |-> "#8B9474",
     avatarColor          |-> "#F5A65B",
     textColor            |-> "text-white",
     mainColor            |-> "#F3F4F6",
     buttonColor          |-> "#8B9474",
     caseStatusColors     |-> DEFAULT_STATUS_COLORS,
     taskStatusColors     |-> DEFAULT_STATUS_COLORS,
     caseStatusTextColors |-> DEFAULT_TEXT_COLORS,
     currentStatusView    |-> "cases",
     initialized          |-> FALSE]

\* The fields of ThemeSettings, the value written to user_profiles.theme_settings.
RemoteFields ==
    {"headerColor", "avatarColor", "textColor", "mainColor", "buttonColor",
     "caseStatusColors", "taskStatusColors", "caseStatusTextColors"}

MapFields == {"caseStatusColors", "taskStatusColors", "caseStatusTextColors"}

\* The PreferenceSet: every piece of state but the `initialized' flag.
PreferenceFields == RemoteFields \cup {"currentStatusView"}

-----------------------------------------------------------------------------
(* isLightColor.  TLC cannot index a string, so Chars gives the characters  *)
(* of each colour literal the model uses; the parsing is done on them.      *)

Chars(s) ==
    CASE s = "#000000" -> <<"#", "0", "0", "0", "0", "0", "0">>
      [] s = "#FFFFFF" -> <<"#", "F", "F", "F", "F", "F", "F">>
      [] s = "#8B9474" -> <<"#", "8", "B", "9", "4", "7", "4">>
      [] s = "#F5A65B" -> <<"#", "F", "5", "A", "6", "5", "B">>
      [] s = "#F3F4F6" -> <<"#", "F", "3", "F", "4", "F", "6">>
      [] s = "808080"  -> <<"8", "0", "8", "0", "8", "0">>
      [] s = ""        -> <<>>
      [] OTHER         -> <<"?">>

HexDigits == <<"0", "1", "2", "3", "4", "5", "6", "7", "8", "9",
               "A", "B", "C", "D", "E", "F">>

LowerHexDigits == <<"0", "1", "2", "3", "4", "5", "6", "7", "8", "9",
                    "a", "b", "c", "d", "e", "f">>

IsHexDigit(c) ==
    \E i \in 1..16 : HexDigits[i] = c \/ LowerHexDigits[i] = c

HexValue(c) ==
    (CHOOSE i \in 1..16 : HexDigits[i] = c \/ LowerHexDigits[i] = c) - 1

\* String.prototype.replace('#', ''): the first '#' is removed, wherever it is.
RemoveFirstHash(cs) ==
    IF \E i \in 1..Len(cs) : cs[i] = "#"
    THEN LET i == CHOOSE j \in 1..Len(cs) :
                    cs[j] = "#" /\ \A h \in 1..(j - 1) : cs[h] # "#"
         IN  SubSeq(cs, 1, i - 1) \o SubSeq(cs, i + 1, Len(cs))
    ELSE cs

\* String.prototype.substring(from, to) with 0 <= from <= to.
Substring(cs, from, to) ==
    SubSeq(cs, (IF from > Len(cs) THEN Len(cs) ELSE from) + 1,
               IF to > Len(cs) THEN Len(cs) ELSE to)

NaN == -1

\* parseInt(s, 16) on a string of at most two characters without sign or
\* blanks: the longest prefix of hex digits, NaN when that prefix is empty.
ParseInt16(cs) ==
    IF Len(cs) = 0 \/ ~IsHexDigit(cs[1]) THEN NaN
    ELSE IF Len(cs) = 1 \/ ~IsHexDigit(cs[2]) THEN HexValue(cs[1])
    ELSE 16 * HexValue(cs[1]) + HexValue(cs[2])

\* The numbers of isLightColor are IEEE 754 doubles.  Every double the
\* luminance computation meets is a nonnegative multiple of 2^-56 below
\* 2^8, and is held as three limbs <<a, b, c>> of 22 bits each, standing
\* for (a + b * 2^22 + c * 2^44) * 2^-56.
LimbBase == 4194304

\* The doubles nearest to 0.299, 0.587 and 0.114.
Coef299 == <<67108, 2952790, 1224>>

Coef587 == <<33552, 1476395, 2404>>

Coef114 == <<4093641, 3959422, 466>>

\* The values such triples range over.
Limbs == Nat \X Nat \X Nat

\* Three limb sums brought back below LimbBase, the top limb taking the rest.
Carry(a, b, c) ==
    LET b1 == b + a \div LimbBase
    IN  <<a % LimbBase, b1 % LimbBase, c + b1 \div LimbBase>>

\* The powers of two a value of more than 53 bits can be rounded to.
Units == {2, 4, 8, 16, 32, 64, 128, 256, 512, 1024, 2048, 4096}

\* The double nearest to an exact value, ties to the even mantissa.  A value
\* below 2^53 (top limb below 2^9) is a double as it stands; a value of
\* 53 + d bits (top limb from 2^(8 + d) up to 2^(9 + d)) is rounded to a
\* multiple of 2^d, and the bits it loses all lie in the low limb.
RoundToDouble ==
    [x \in Limbs |->
        IF x[3] < 512 THEN x
        ELSE LET unit == CHOOSE u \in Units : 256 * u <= x[3] /\ x[3] < 512 * u
                 rem  == x[1] % unit
                 down == x[1] - rem
                 up   == \/ 2 * rem > unit
                         \/ 2 * rem = unit /\ (down \div unit) % 2 = 1
             IN  Carry(IF up THEN down + unit ELSE down, x[2], x[3])]

\* coefficient * n for a byte n, and x + y, as the doubles JavaScript gives.
Times == [x \in Limbs, n \in Nat |-> RoundToDouble[Carry(x[1] * n, x[2] * n, x[3] * n)]]

Plus == [x \in Limbs, y \in Limbs |->
            RoundToDouble[Carry(x[1] + y[1], x[2] + y[2], x[3] + y[3])]]

Greater(x, y) ==
    \/ x[3] > y[3]
    \/ x[3] = y[3] /\ x[2] > y[2]
    \/ x[3] = y[3] /\ x[2] = y[2] /\ x[1] > y[1]

\* (sum / 255) > 0.5.  Rounding is monotone and 0.5 has an even mantissa, so
\* the rounded quotient exceeds 0.5 exactly when the exact quotient exceeds
\* 0.5 + 2^-54, half way to the next double: sum > 255 * (2^55 + 4) * 2^-56.
QuotientExceedsHalf == [sum \in Limbs |-> Greater(sum, <<1020, 0, 522240>>)]

\* luminance > 0.5 with luminance = (0.299 * r + 0.587 * g + 0.114 * b) / 255,
\* every product, sum and quotient rounded to a double; a NaN component makes
\* the luminance NaN and the comparison false.
IsLightChars(cs) ==
    LET hex == RemoveFirstHash(cs)
        r == ParseInt16(Substring(hex, 0, 2))
        g == ParseInt16(Substring(hex, 2, 4))
        b == ParseInt16(Substring(hex, 4, 6))
    IN  IF r = NaN \/ g = NaN \/ b = NaN THEN FALSE
        ELSE QuotientExceedsHalf[
                 Plus[Plus[Times[Coef299, r], Times[Coef587, g]], Times[Coef114, b]]]

isLightColor(hexColor) == IsLightChars(Chars(hexColor))

ContrastText(color) == IF isLightColor(color) THEN "text-gray-800" ELSE "text-white"

-----------------------------------------------------------------------------
(* JSON text of a status map.  A text is the sequence of its tokens:        *)
(* <<"{", key, ":", value, ",", key, ":", value, "}">>.                     *)

RECURSIVE Members(_, _)
Members(m, i) ==
    IF i > Len(StatusKeys) THEN <<>>
    ELSE LET k == StatusKeys[i]
             rest == Members(m, i + 1)
         IN  IF k \in DOMAIN m
             THEN <<k, ":", m[k]>> \o (IF rest = <<>> THEN <<>> ELSE <<",">> \o rest)
             ELSE rest

JSONstringify(m) == <<"{">> \o Members(m, 1) \o <<"}">>

IsPunct(t) == t \in {"{", "}", ":", ","}

\* Whether JSON.parse accepts the text as an object of string members.
WellFormed(text) ==
    /\ Len(text) >= 2
    /\ text[1] = "{"
    /\ text[Len(text)] = "}"
    /\ LET n == Len(text) - 2
       IN  \/ n = 0
           \/ /\ n % 4 = 3
              /\ \A i \in 1..n :
                    CASE i % 4 = 2 -> text[i + 1] = ":"
                      [] i % 4 = 0 -> text[i + 1] = ","
                      [] OTHER     -> ~IsPunct(text[i + 1])

\* JSON.parse: [ok |-> FALSE] stands for the SyntaxError it throws; of two
\* members with the same key the later one wins.
JSONparse(text) ==
    IF ~WellFormed(text) THEN [ok |-> FALSE, value |-> <<>>]
    ELSE LET n == (Len(text) - 2 + 1) \div 4
             keyAt(j) == text[4 * (j - 1) + 2]
             valAt(j) == text[4 * (j - 1) + 4]
             lastOf(k) == CHOOSE j \in 1..n :
                              keyAt(j) = k /\ \A h \in (j + 1)..n : keyAt(h) # k
         IN  [ok |-> TRUE,
              value |-> [k \in {keyAt(j) : j \in 1..n} |-> valAt(lastOf(k))]]

-----------------------------------------------------------------------------
(* localStorage.  getItem gives null for a missing key; every read in the   *)
(* provider treats null and the empty string alike (`||', `? :'), so a      *)
(* missing entry is modelled as the empty string, or the empty text for the *)
(* keys that hold JSON.                                                      *)

ScalarKeys ==
    {"praxis-header-color", "praxis-avatar-color", "praxis-text-color",
     "praxis-main-color", "praxis-button-color", "praxis-status-view"}

JsonKeys ==
    {"praxis-case-status-colors", "praxis-task-status-colors",
     "praxis-case-status-text-colors"}

EmptyStorage ==
    [k \in ScalarKeys \cup JsonKeys |-> IF k \in JsonKeys THEN <<>> ELSE ""]

\* a || b for strings.
OrElse(a, b) == IF a # "" THEN a ELSE b

\* stored ? JSON.parse(stored) : dflt, for a text that parses.
ParsedOr(text, dflt) == IF text # <<>> THEN JSONparse(text).value ELSE dflt

Throws(text) == text # <<>> /\ ~JSONparse(text).ok

\* LoadScalars giving the avatar colour its default whatever is cached.
LoadScalars_AvatarDefault(s, ls) ==
    [s EXCEPT
        !.headerColor = OrElse(ls["praxis-header-color"], "#8B9474"),
        !.avatarColor = "#F5A65B",
        !.textColor   = ContrastText(OrElse(ls["praxis-header-color"], "#8B9474")),
        !.mainColor   = OrElse(ls["praxis-main-color"], "#F3F4F6"),
        !.buttonColor = OrElse(ls["praxis-button-color"], "#8B9474")]

\* loadFromLocalStorage run on state s: the state it leaves and whether a
\* JSON.parse threw.  The setXState calls made before the throw stay made.
LoadScalars(s, ls) ==
    [s EXCEPT
        !.headerColor = OrElse(ls["praxis-header-color"], "#8B9474"),
        !.avatarColor = OrElse(ls["praxis-avatar-color"], "#F5A65B"),
        !.textColor   = ContrastText(OrElse(ls["praxis-header-color"], "#8B9474")),
        !.mainColor   = OrElse(ls["praxis-main-color"], "#F3F4F6"),
        !.buttonColor = OrElse(ls["praxis-button-color"], "#8B9474")]

loadFromLocalStorage(s, ls) ==
    LET s1 == LoadScalars(s, ls)
        caseText == ls["praxis-case-status-colors"]
        taskText == ls["praxis-task-status-colors"]
        textText == ls["praxis-case-status-text-colors"]
    IN  IF Throws(caseText) THEN [state |-> s1, threw |-> TRUE]
        ELSE LET s2 == [s1 EXCEPT !.caseStatusColors =
                                    ParsedOr(caseText, DEFAULT_STATUS_COLORS)]
             IN  IF Throws(taskText) THEN [state |-> s2, threw |-> TRUE]
                 ELSE LET s3 == [s2 EXCEPT !.taskStatusColors =
                                    ParsedOr(taskText, DEFAULT_STATUS_COLORS)]
                      IN  IF Throws(textText) THEN [state |-> s3, threw |-> TRUE]
                          ELSE [state |->
                                  [s3 EXCEPT
                                     !.caseStatusTextColors =
                                        ParsedOr(textText, DEFAULT_TEXT_COLORS),
                                     !.currentStatusView =
                                        OrElse(ls["praxis-status-view"], "cases")],
                                threw |-> FALSE]

-----------------------------------------------------------------------------
(* Inputs.                                                                  *)

HeaderColorInputs == {"#000000", "#FFFFFF"}

ColorInputs == {"#000000"}

TextColorInputs == {"text-black"}

StatusKeyInputs == {"completed", "analysis"}

OtherStatusKeyInputs == {"completed"}

StatusColorInputs == {"#000000"}

ViewInputs == {"tasks"}

\* A cached status map that JSON.parse rejects.
BrokenText == <<"{", "completed">>

BrokenStorage == [EmptyStorage EXCEPT !["praxis-case-status-colors"] = BrokenText]

\* The user's row of user_profiles: whether it exists, whether its
\* theme_settings is set, and the settings (any subset of the fields).
NoRow == [row |-> FALSE, present |-> FALSE, settings |-> <<>>]

NullRow == [row |-> TRUE, present |-> FALSE, settings |-> <<>>]

RowWith(settings) == [row |-> TRUE, present |-> TRUE, settings |-> settings]

PartialSettings ==
    [headerColor |-> "#FFFFFF", caseStatusColors |-> [completed |-> "#FFFFFF"]]

TextSettings == [textColor |-> "text-black", buttonColor |-> ""]

\* What localStorage and the remote row hold when the page is first opened.
InitialWorlds ==
    { <<EmptyStorage, NoRow>>,
      <<BrokenStorage, NullRow>>,
      <<EmptyStorage, RowWith(PartialSettings)>>,
      <<BrokenStorage, RowWith(TextSettings)>> }

\* No colour has been handed to isLightColor.
NoProbe == [r |-> 0, g |-> 0, b |-> 0, hash |-> FALSE, called |-> FALSE, light |-> FALSE]

\* The payment test button before it is mounted.
NoButton ==
    [user |-> FALSE, isLoading |-> FALSE, at |-> "idle", payment |-> 0,
     pagamentos |-> <<>>, assinatura_ativa |-> FALSE, toast |-> "none",
     reloaded |-> FALSE, clicks |-> 0]

Init ==
    /\ probe = NoProbe
    /\ button = NoButton
    /\ state = DefaultState
    /\ rendered = DefaultState
    /\ \E w \in InitialWorlds : localStorage = w[1] /\ remote = w[2]
    /\ pc = "start"
    /\ loadPath = "none"
    /\ inflight = EmptyBag
    /\ toastShown = FALSE
    /\ calls = 0
    /\ reloads = 0
    /\ before = [state |-> DefaultState, calls |-> 0]

-----------------------------------------------------------------------------
(* loadThemeSettings, run once per mount.  It suspends at getUser and at    *)
(* the select; each action below is the code run between two suspensions.   *)

\* The end of loadThemeSettings for a body that did not throw: line 143,
\* 156 or 177.
Finish(s) == [state |-> [s EXCEPT !.initialized = TRUE], pc |-> "done"]

\* The catch block, lines 173-177: loadFromLocalStorage is called again,
\* outside any try; if it throws the promise rejects and line 177 is not run.
Catch(s) ==
    LET r == loadFromLocalStorage(s, localStorage)
    IN  IF r.threw THEN [state |-> r.state, pc |-> "crashed"] ELSE Finish(r.state)

\* A branch of the try block that calls loadFromLocalStorage.
FromLocalStorage(s) ==
    LET r == loadFromLocalStorage(s, localStorage)
    IN  IF r.threw THEN Catch(r.state) ELSE Finish(r.state)

\* settings.f || dflt for a string field.
FieldOr(settings, f, dflt) ==
    IF f \in DOMAIN settings /\ settings[f] # "" THEN settings[f] ELSE dflt

\* settings.f || dflt for a status map: an object is truthy whatever its keys.
MapOr(settings, f, dflt) ==
    IF f \in DOMAIN settings THEN settings[f] ELSE dflt

\* AdoptSettings with the text colour derived from the header colour, as
\* loadFromLocalStorage derives it.
AdoptSettings_DerivedText(s, settings) ==
    [s EXCEPT
        !.headerColor = FieldOr(settings, "headerColor", "#8B9474"),
        !.avatarColor = FieldOr(settings, "avatarColor", "#F5A65B"),
        !.textColor   = ContrastText(FieldOr(settings, "headerColor", "#8B9474")),
        !.mainColor   = FieldOr(settings, "mainColor", "#F3F4F6"),
        !.buttonColor = FieldOr(settings, "buttonColor", "#8B9474"),
        !.caseStatusColors = MapOr(settings, "caseStatusColors", DEFAULT_STATUS_COLORS),
        !.taskStatusColors = MapOr(settings, "taskStatusColors", DEFAULT_STATUS_COLORS),
        !.caseStatusTextColors =
            MapOr(settings, "caseStatusTextColors", DEFAULT_TEXT_COLORS)]

\* AdoptSettings keeping an avatar colour set while the load was in flight.
AdoptSettings_KeepSet(s, settings) ==
    [s EXCEPT
        !.headerColor = FieldOr(settings, "headerColor", "#8B9474"),
        !.avatarColor = IF s.avatarColor # "#F5A65B" THEN s.avatarColor
                        ELSE FieldOr(settings, "avatarColor", "#F5A65B"),
        !.textColor   = FieldOr(settings, "textColor", "text-white"),
        !.mainColor   = FieldOr(settings, "mainColor", "#F3F4F6"),
        !.buttonColor = FieldOr(settings, "buttonColor", "#8B9474"),
        !.caseStatusColors = MapOr(settings, "caseStatusColors", DEFAULT_STATUS_COLORS),
        !.taskStatusColors = MapOr(settings, "taskStatusColors", DEFAULT_STATUS_COLORS),
        !.caseStatusTextColors =
            MapOr(settings, "caseStatusTextColors", DEFAULT_TEXT_COLORS)]

\* Lines 161-169.
AdoptSettings(s, settings) ==
    [s EXCEPT
        !.headerColor = FieldOr(settings, "headerColor", "#8B9474"),
        !.avatarColor = FieldOr(settings, "avatarColor", "#F5A65B"),
        !.textColor   = FieldOr(settings, "textColor", "text-white"),
        !.mainColor   = FieldOr(settings, "mainColor", "#F3F4F6"),
        !.buttonColor = FieldOr(settings, "buttonColor", "#8B9474"),
        !.caseStatusColors = MapOr(settings, "caseStatusColors", DEFAULT_STATUS_COLORS),
        !.taskStatusColors = MapOr(settings, "taskStatusColors", DEFAULT_STATUS_COLORS),
        !.caseStatusTextColors =
            MapOr(settings, "caseStatusTextColors", DEFAULT_TEXT_COLORS)]

LoadFrame == UNCHANGED <<rendered, localStorage, remote, inflight, toastShown,
                         calls, reloads, before, probe, button>>

\* getUser resolved with no user: lines 140-145.
LoadNoUser ==
    /\ pc = "start"
    /\ LET r == FromLocalStorage(state)
       IN  state' = r.state /\ pc' = r.pc
    /\ loadPath' = "local"
    /\ LoadFrame

\* getUser resolved with a user: the select is issued, lines 147-151.
LoadUser ==
    /\ pc = "start"
    /\ pc' = "fetching"
    /\ UNCHANGED <<state, loadPath>>
    /\ LoadFrame

\* getUser or the select threw: lines 173-177.
LoadException ==
    /\ pc \in {"start", "fetching"}
    /\ LET r == Catch(state)
       IN  state' = r.state /\ pc' = r.pc
    /\ loadPath' = "local"
    /\ LoadFrame

\* The select returned an error other than PGRST116: lines 153-158.
LoadFetchError ==
    /\ pc = "fetching"
    /\ LET r == FromLocalStorage(state)
       IN  state' = r.state /\ pc' = r.pc
    /\ loadPath' = "local"
    /\ LoadFrame

\* The select returned: PGRST116 and no profile when the row is missing,
\* the profile otherwise.  Lines 153, 160-177.
LoadFetched ==
    /\ pc = "fetching"
    /\ IF remote.row /\ remote.present
       THEN /\ state' = Finish(AdoptSettings(state, remote.settings)).state
            /\ pc' = "done"
            /\ loadPath' = "remote"
       ELSE /\ LET r == FromLocalStorage(state)
               IN  state' = r.state /\ pc' = r.pc
            /\ loadPath' = "local"
    /\ LoadFrame

\* React renders the provider again: the setters now close over the state.
Render ==
    /\ rendered # state
    /\ rendered' = state
    /\ UNCHANGED <<state, localStorage, remote, pc, loadPath, inflight, toastShown,
                   calls, reloads, before, probe, button>>

-----------------------------------------------------------------------------
(* The setters.  Each reads the other fields, and `initialized', from the   *)
(* render it closes over.                                                   *)

\* The object literal every setter builds, lines 233-242: the closed-over
\* value of each field.
ClosureSettings == [f \in RemoteFields |-> rendered[f]]

\* The call saveThemeToDatabase(newSettings): it runs up to its first await.
saveThemeToDatabase(newSettings) ==
    inflight' = inflight (+) SetToBag({[mount |-> reloads, payload |-> newSettings]})

SetterFrame ==
    /\ calls < MaxCalls
    /\ calls' = calls + 1
    /\ UNCHANGED <<rendered, remote, pc, loadPath, toastShown, reloads, before,
                   probe, button>>

\* setHeaderColor sending the closed-over text colour, as the other setters do.
setHeaderColor_StaleText(color) ==
    LET newTextColor == ContrastText(color)
        newSettings == [ClosureSettings EXCEPT !.headerColor = color]
    IN  /\ state' = [state EXCEPT !.headerColor = color, !.textColor = newTextColor]
        /\ localStorage' = [localStorage EXCEPT !["praxis-header-color"] = color]
        /\ IF rendered.initialized
           THEN saveThemeToDatabase(newSettings)
           ELSE UNCHANGED inflight
        /\ SetterFrame

\* Lines 226-245.
setHeaderColor(color) ==
    LET newTextColor == ContrastText(color)
        newSettings == [ClosureSettings EXCEPT !.headerColor = color,
                                               !.textColor = newTextColor]
    IN  /\ state' = [state EXCEPT !.headerColor = color, !.textColor = newTextColor]
        /\ localStorage' = [localStorage EXCEPT !["praxis-header-color"] = color]
        /\ IF rendered.initialized
           THEN saveThemeToDatabase(newSettings)
           ELSE UNCHANGED inflight
        /\ SetterFrame

\* setAvatarColor without the `if (initialized)' around the save.
setAvatarColor_Ungated(color) ==
    LET newSettings == [ClosureSettings EXCEPT !.avatarColor = color]
    IN  /\ state' = [state EXCEPT !.avatarColor = color]
        /\ localStorage' = [localStorage EXCEPT !["praxis-avatar-color"] = color]
        /\ saveThemeToDatabase(newSettings)
        /\ SetterFrame

\* Lines 247-264.
setAvatarColor(color) ==
    LET newSettings == [ClosureSettings EXCEPT !.avatarColor = color]
    IN  /\ state' = [state EXCEPT !.avatarColor = color]
        /\ localStorage' = [localStorage EXCEPT !["praxis-avatar-color"] = color]
        /\ IF rendered.initialized
           THEN saveThemeToDatabase(newSettings)
           ELSE UNCHANGED inflight
        /\ SetterFrame

\* setTextColor keeping the text colour in contrast with the header colour.
setTextColor_Revalidated(color) ==
    LET kept == IF ContrastText(rendered.headerColor) = "text-white"
                THEN color ELSE ContrastText(rendered.headerColor)
        newSettings == [ClosureSettings EXCEPT !.textColor = kept]
    IN  /\ state' = [state EXCEPT !.textColor = kept]
        /\ localStorage' = [localStorage EXCEPT !["praxis-text-color"] = kept]
        /\ IF rendered.initialized
           THEN saveThemeToDatabase(newSettings)
           ELSE UNCHANGED inflight
        /\ SetterFrame

\* Lines 266-283.
setTextColor(color) ==
    LET newSettings == [ClosureSettings EXCEPT !.textColor = color]
    IN  /\ state' = [state EXCEPT !.textColor = color]
        /\ localStorage' = [localStorage EXCEPT !["praxis-text-color"] = color]
        /\ IF rendered.initialized
           THEN saveThemeToDatabase(newSettings)
           ELSE UNCHANGED inflight
        /\ SetterFrame

\* setMainColor dispatching the save and leaving the cache write for later.
setMainColor_CacheLater(color) ==
    LET newSettings == [ClosureSettings EXCEPT !.mainColor = color]
    IN  /\ state' = [state EXCEPT !.mainColor = color]
        /\ IF rendered.initialized
           THEN saveThemeToDatabase(newSettings) /\ UNCHANGED localStorage
           ELSE /\ localStorage' = [localStorage EXCEPT !["praxis-main-color"] = color]
                /\ UNCHANGED inflight
        /\ SetterFrame

\* Lines 285-302.
setMainColor(color) ==
    LET newSettings == [ClosureSettings EXCEPT !.mainColor = color]
    IN  /\ state' = [state EXCEPT !.mainColor = color]
        /\ localStorage' = [localStorage EXCEPT !["praxis-main-color"] = color]
        /\ IF rendered.initialized
           THEN saveThemeToDatabase(newSettings)
           ELSE UNCHANGED inflight
        /\ SetterFrame

\* Lines 304-321.
setButtonColor(color) ==
    LET newSettings == [ClosureSettings EXCEPT !.buttonColor = color]
    IN  /\ state' = [state EXCEPT !.buttonColor = color]
        /\ localStorage' = [localStorage EXCEPT !["praxis-button-color"] = color]
        /\ IF rendered.initialized
           THEN saveThemeToDatabase(newSettings)
           ELSE UNCHANGED inflight
        /\ SetterFrame

\* { ...map, [status]: color }
Merge(map, status, color) ==
    [k \in DOMAIN map \cup {status} |-> IF k = status THEN color ELSE map[k]]

\* Lines 323-341.
setCaseStatusColor(status, color) ==
    LET newColors == Merge(rendered.caseStatusColors, status, color)
        newSettings == [ClosureSettings EXCEPT !.caseStatusColors = newColors]
    IN  /\ state' = [state EXCEPT !.caseStatusColors = newColors]
        /\ localStorage' = [localStorage EXCEPT
                               !["praxis-case-status-colors"] = JSONstringify(newColors)]
        /\ IF rendered.initialized
           THEN saveThemeToDatabase(newSettings)
           ELSE UNCHANGED inflight
        /\ SetterFrame

\* Lines 343-361.
setTaskStatusColor(status, color) ==
    LET newColors == Merge(rendered.taskStatusColors, status, color)
        newSettings == [ClosureSettings EXCEPT !.taskStatusColors = newColors]
    IN  /\ state' = [state EXCEPT !.taskStatusColors = newColors]
        /\ localStorage' = [localStorage EXCEPT
                               !["praxis-task-status-colors"] = JSONstringify(newColors)]
        /\ IF rendered.initialized
           THEN saveThemeToDatabase(newSettings)
           ELSE UNCHANGED inflight
        /\ SetterFrame

\* Lines 363-381.
setCaseStatusTextColor(status, color) ==
    LET newColors == Merge(rendered.caseStatusTextColors, status, color)
        newSettings == [ClosureSettings EXCEPT !.caseStatusTextColors = newColors]
    IN  /\ state' = [state EXCEPT !.caseStatusTextColors = newColors]
        /\ localStorage' = [localStorage EXCEPT
                               !["praxis-case-status-text-colors"] = JSONstringify(newColors)]
        /\ IF rendered.initialized
           THEN saveThemeToDatabase(newSettings)
           ELSE UNCHANGED inflight
        /\ SetterFrame

\* Lines 383-386.
setCurrentStatusView(view) ==
    /\ state' = [state EXCEPT !.currentStatusView = view]
    /\ localStorage' = [localStorage EXCEPT !["praxis-status-view"] = view]
    /\ UNCHANGED inflight
    /\ SetterFrame

-----------------------------------------------------------------------------------------------------------------------------------------------------
(* saveThemeToDatabase after its call.  It awaits getUser and then the      *)
(* update; between the two it touches nothing but its own `user', so each   *)
(* action below is one way the whole call can end.                          *)

SaveFrame == UNCHANGED <<state, rendered, localStorage, pc, loadPath, calls,
                         reloads, before, probe, button>>

\* saveThemeToDatabase without the `if (!user) return': the update is issued.
SaveNoUser_Updates(w) ==
    /\ inflight' = inflight (-) SetToBag({w})
    /\ remote' = IF remote.row THEN RowWith(w.payload) ELSE remote
    /\ UNCHANGED toastShown
    /\ SaveFrame

\* getUser resolved with no user (line 206) or threw (lines 221-223): no
\* update is issued.
SaveNoUser(w) ==
    /\ inflight' = inflight (-) SetToBag({w})
    /\ UNCHANGED <<remote, toastShown>>
    /\ SaveFrame

\* SaveApplied for saves that are sent one at a time: an update waits until
\* no other save is in flight.
SaveApplied_Serialized(w) ==
    /\ BagCardinality(inflight) = 1
    /\ inflight' = inflight (-) SetToBag({w})
    /\ remote' = IF remote.row THEN RowWith(w.payload) ELSE remote
    /\ UNCHANGED toastShown
    /\ SaveFrame

\* The update reached the table and returned no error, lines 208-211; an
\* update of a missing row changes nothing.
SaveApplied(w) ==
    /\ inflight' = inflight (-) SetToBag({w})
    /\ remote' = IF remote.row THEN RowWith(w.payload) ELSE remote
    /\ UNCHANGED toastShown
    /\ SaveFrame

\* SaveError sending the update again: the save stays in flight.
SaveError_Retry(w) ==
    /\ UNCHANGED inflight
    /\ toastShown' = (toastShown \/ w.mount = reloads)
    /\ UNCHANGED remote
    /\ SaveFrame

\* The update returned an error: lines 213-220.  The toast is raised by the
\* provider that made the call, if the page still shows it.
SaveError(w) ==
    /\ inflight' = inflight (-) SetToBag({w})
    /\ toastShown' = (toastShown \/ w.mount = reloads)
    /\ UNCHANGED remote
    /\ SaveFrame

\* SaveThrew with the toast of lines 215-219 raised in the catch block too.
SaveThrew_Toast(w) ==
    /\ inflight' = inflight (-) SetToBag({w})
    /\ toastShown' = (toastShown \/ w.mount = reloads)
    /\ UNCHANGED remote
    /\ SaveFrame

\* The update threw: lines 221-223.
SaveThrew(w) ==
    /\ inflight' = inflight (-) SetToBag({w})
    /\ UNCHANGED <<remote, toastShown>>
    /\ SaveFrame

-----
(* The page is reloaded: the provider is mounted again with its defaults,   *)
(* localStorage and the remote row stay, and an update already on its way  *)
(* may still arrive.                                                         *)

Reload ==
    /\ reloads < MaxReloads
    /\ reloads' = reloads + 1
    /\ before' = [state |-> state, calls |-> calls]
    /\ state' = DefaultState
    /\ rendered' = DefaultState
    /\ pc' = "start"
    /\ loadPath' = "none"
    /\ UNCHANGED inflight
    /\ toastShown' = FALSE
    /\ UNCHANGED <<localStorage, remote, calls, probe, button>>

-----------------------------------------------------------------------------

Next ==
    \/ LoadNoUser
    \/ LoadUser
    \/ LoadException
    \/ LoadFetchError
    \/ LoadFetched
    \/ Render
    \/ \E c \in HeaderColorInputs : setHeaderColor(c)
    \/ \E c \in ColorInputs : setAvatarColor(c)
    \/ \E c \in TextColorInputs : setTextColor(c)
    \/ \E c \in ColorInputs : setMainColor(c)
    \/ \E c \in ColorInputs : setButtonColor(c)
    \/ \E k \in StatusKeyInputs, c \in StatusColorInputs : setCaseStatusColor(k, c)
    \/ \E k \in OtherStatusKeyInputs, c \in StatusColorInputs : setTaskStatusColor(k, c)
    \/ \E k \in OtherStatusKeyInputs, c \in StatusColorInputs : setCaseStatusTextColor(k, c)
    \/ \E v \in ViewInputs : setCurrentStatusView(v)
    \/ \E w \in BagToSet(inflight) : SaveNoUser(w)
    \/ \E w \in BagToSet(inflight) : SaveApplied(w)
    \/ \E w \in BagToSet(inflight) : SaveError(w)
    \/ \E w \in BagToSet(inflight) : SaveThrew(w)

Spec == Init /\ [][Next]_vars

\* The same with the page reloaded up to MaxReloads times.
SpecReload == Init /\ [][Next \/ Reload]_vars

-----------------------------------------------------------------------------
(* isLightColor applied to one colour.                                      *)

\* The theme manager before its load has started, nothing cached, no row.
ThemeAtRest ==
    /\ state = DefaultState
    /\ rendered = DefaultState
    /\ localStorage = EmptyStorage
    /\ remote = NoRow
    /\ pc = "start"
    /\ loadPath = "none"
    /\ inflight = EmptyBag
    /\ toastShown = FALSE
    /\ calls = 0
    /\ reloads = 0
    /\ before = [state |-> DefaultState, calls |-> 0]

\* Colour components: the extremes, mid greys, and the components of the
\* colours whose luminance is exactly one half (299 r + 587 g + 114 b =
\* 127500), among them #00CC44, #16CE00 and #DA3AF8.
ByteInputs == {0, 22, 58, 68, 127, 128, 204, 206, 218, 248, 255}

\* The two hex digits of a byte, as Number.prototype.toString(16) pads them.
HexByte(n) == <<HexDigits[(n \div 16) + 1], HexDigits[(n % 16) + 1]>>

\* The colour string of three components, with or without its '#'.
HexColor(r, g, b, hash) ==
    (IF hash THEN <<"#">> ELSE <<>>) \o HexByte(r) \o HexByte(g) \o HexByte(b)

InitLight ==
    /\ \E r \in ByteInputs, g \in ByteInputs, b \in ByteInputs, hash \in BOOLEAN :
          probe = [r |-> r, g |-> g, b |-> b, hash |-> hash,
                   called |-> FALSE, light |-> FALSE]
    /\ button = NoButton
    /\ ThemeAtRest

\* isLightColor(hexColor), lines 83-97.
CallIsLightColor ==
    /\ ~probe.called
    /\ probe' = [probe EXCEPT
                    !.called = TRUE,
                    !.light = IsLightChars(HexColor(probe.r, probe.g, probe.b, probe.hash))]
    /\ UNCHANGED <<themeVars, button>>

NextLight == CallIsLightColor

SpecLight == InitLight /\ [][NextLight]_vars

-----------------------------------------------------------------------------
(* PaymentTestButton, src/unnamed/part_000.  simulatePayment suspends at    *)
(* the select and at each update; `at' is the await it is suspended at.     *)
(* `pagamentos' holds the status of the user's payments, oldest first, and  *)
(* `payment' the position of the row the select returned.                   *)

InitPayment ==
    /\ \E u \in BOOLEAN, rows \in {<<>>, <<"pending">>, <<"pending", "pending">>} :
          button = [NoButton EXCEPT !.user = u, !.pagamentos = rows]
    /\ probe = NoProbe
    /\ ThemeAtRest

ButtonFrame == UNCHANGED <<themeVars, probe>>

\* The rows the select matches: eq('status', 'pending').
Pending(rows) == {i \in 1..Len(rows) : rows[i] = "pending"}

\* order('created_at', { ascending: false }).limit(1): the latest of them.
Latest(found) == CHOOSE i \in found : \A j \in found : j <= i

\* The finally block, lines 61-63.
Finally(b) == [b EXCEPT !.isLoading = FALSE, !.at = "idle"]

\* The catch block and the finally block, lines 58-63.
CatchError(b) == Finally([b EXCEPT !.toast = "Erro ao confirmar pagamento"])

\* The button is clicked (it is disabled while isLoading): lines 12-25.
simulatePayment ==
    /\ ~button.isLoading
    /\ button.at = "idle"
    /\ button.clicks < MaxClicks
    /\ button' = IF ~button.user
                 THEN [button EXCEPT !.clicks = @ + 1]
                 ELSE [button EXCEPT !.clicks = @ + 1, !.isLoading = TRUE, !.at = "select"]
    /\ ButtonFrame

\* The select returned a pending payment: the payment update is issued,
\* lines 27-36.
SelectFound ==
    /\ button.at = "select"
    /\ Pending(button.pagamentos) # {}
    /\ button' = [button EXCEPT !.payment = Latest(Pending(button.pagamentos)),
                                !.at = "updatePayment"]
    /\ ButtonFrame

\* The select returned an error (no row is one) or no payment: lines 27-30,
\* then the finally block.
SelectNotFound ==
    /\ button.at = "select"
    /\ button' = Finally([button EXCEPT !.toast = "Nenhum pagamento pendente encontrado"])
    /\ ButtonFrame

\* The select threw.
SelectThrew ==
    /\ button.at = "select"
    /\ button' = CatchError(button)
    /\ ButtonFrame

\* The payment update returned no error: the profile update is issued,
\* lines 38-52.
PaymentUpdated ==
    /\ button.at = "updatePayment"
    /\ button' = [button EXCEPT !.pagamentos[button.payment] = "confirmed",
                                !.at = "updateProfile"]
    /\ ButtonFrame

\* The payment update returned an error or threw: line 38, lines 58-63.
PaymentUpdateFailed ==
    /\ button.at = "updatePayment"
    /\ button' = CatchError(button)
    /\ ButtonFrame

\* The profile update returned no error: lines 54-57, then the finally block.
ProfileUpdated ==
    /\ button.at = "updateProfile"
    /\ button' = Finally([button EXCEPT
                             !.assinatura_ativa = TRUE,
                             !.toast = "Pagamento confirmado e assinatura ativada!",
                             !.reloaded = TRUE])
    /\ ButtonFrame

\* ProfileUpdateFailed undoing the payment update.
ProfileUpdateFailed_Rollback ==
    /\ button.at = "updateProfile"
    /\ button' = CatchError([button EXCEPT !.pagamentos[button.payment] = "pending"])
    /\ ButtonFrame

\* The profile update returned an error or threw: line 54, lines 58-63.
ProfileUpdateFailed ==
    /\ button.at = "updateProfile"
    /\ button' = CatchError(button)
    /\ ButtonFrame

NextPayment ==
    \/ simulatePayment
    \/ SelectFound
    \/ SelectNotFound
    \/ SelectThrew
    \/ PaymentUpdated
    \/ PaymentUpdateFailed
    \/ ProfileUpdated
    \/ ProfileUpdateFailed

SpecPayment == InitPayment /\ [][NextPayment]_vars

-----------------------------------------------------------------------------
(* Properties.                                                              *)

\* The load has returned or rejected.
LoadSettled == pc \in {"done", "crashed"}

\* C1: while `initialized' is false no save has been dispatched: the
\* setters called before the load completed reached memory and localStorage
\* only.  (Under Spec every save in flight was dispatched by this mount.)
C1_NoSaveBeforeInitialized ==
    ~state.initialized => (inflight = EmptyBag /\ \E w \in InitialWorlds : remote = w[2])

\* A setter ran before the load completed: memory and cache hold its value.
C1_Witness ==
    /\ ~state.initialized
    /\ pc = "fetching"
    /\ state.avatarColor = "#000000"
    /\ localStorage["praxis-avatar-color"] = "#000000"
    /\ inflight = EmptyBag

\* C2: whatever the outcome of the load, once loadThemeSettings has ended
\* `initialized' is true; the load never ends in a rejection.
C2_LoadAlwaysInitializes == LoadSettled => (pc = "done" /\ state.initialized)

\* C3: after a reload and a load from localStorage, memory holds the
\* PreferenceSet it held before the reload, field for field.  Stated for a
\* reload made after the first load completed, for a user without a row (no
\* load took its values from the remote) and before any setter is called in
\* the reloaded page.
C3_RoundTrip ==
    (/\ remote = NoRow
     /\ reloads > 0
     /\ before.state.initialized
     /\ pc = "done"
     /\ calls = before.calls)
        => \A f \in PreferenceFields : state[f] = before.state[f]

\* C4: after a reload the in-memory currentStatusView is the value
\* setCurrentStatusView cached, whichever path the load took.
C4_ViewRestored ==
    (reloads > 0 /\ pc = "done" /\ localStorage["praxis-status-view"] # "")
        => state.currentStatusView = localStorage["praxis-status-view"]


\* The value of a status map at a key, for maps that may lack the key.
At(map, k) == IF k \in DOMAIN map THEN map[k] ELSE "undefined"

\* The saves this step dispatched.
Dispatched == {w \in BagToSet(inflight') : CopiesIn(w, inflight') > CopiesIn(w, inflight)}

\* C5: setCaseStatusColor(k, c) changes caseStatusColors[k] only: the other
\* keys of the map, and taskStatusColors, keep the values memory held
\* before the call.
C5_CaseStatusFrame ==
    [][\A k \in StatusKeyInputs, c \in StatusColorInputs :
          setCaseStatusColor(k, c) =>
              /\ state'.caseStatusColors[k] = c
              /\ \A j \in StatusKeySet \ {k} :
                    At(state'.caseStatusColors, j) = At(state.caseStatusColors, j)
              /\ state'.taskStatusColors = state.taskStatusColors]_vars

\* C6: a save dispatched by a setter carries, for every remote field, the
\* value memory holds once the setter has run.
C6_SaveCarriesMemory ==
    [][\A w \in Dispatched : \A f \in RemoteFields : w.payload[f] = state'[f]]_vars

\* C7: each status map holds exactly the four status keys.
C7_ExactlyFourKeys == \A f \in MapFields : DOMAIN state[f] = StatusKeySet

\* What a field of a remote payload gives: its value, or the hardcoded
\* default when the payload lacks it.
Expected(settings, f) ==
    IF f \in DOMAIN settings /\ (f \in MapFields \/ settings[f] # "")
    THEN settings[f]
    ELSE CASE f = "headerColor" -> "#8B9474"
           [] f = "avatarColor" -> "#F5A65B"
           [] f = "textColor"   -> "text-white"
           [] f = "mainColor"   -> "#F3F4F6"
           [] f = "buttonColor" -> "#8B9474"
           [] f = "caseStatusColors" -> DEFAULT_STATUS_COLORS
           [] f = "taskStatusColors" -> DEFAULT_STATUS_COLORS
           [] f = "caseStatusTextColors" -> DEFAULT_TEXT_COLORS

\* C8: a load from a remote payload leaves every field at the payload's
\* value or, where the payload has none, at the hardcoded default; the text
\* colour is not derived from the header colour.
C8_PartialPayloadDefaults ==
    [][(pc = "fetching" /\ pc' = "done" /\ loadPath' = "remote") =>
          \A f \in RemoteFields : state'[f] = Expected(remote.settings, f)]_vars

\* A payload with a light header colour and no text colour was loaded: the
\* text colour is the default, the fields the payload lacks are defaults.
C8_Witness ==
    /\ pc = "done"
    /\ loadPath = "remote"
    /\ calls = 0
    /\ state.headerColor = "#FFFFFF"
    /\ state.textColor = "text-white"
    /\ state.avatarColor = "#F5A65B"
    /\ state.taskStatusColors = DEFAULT_STATUS_COLORS

\* C9: setHeaderColor(c) sets headerColor to c and textColor to the contrast
\* of c (text-white for #000000, text-gray-800 for #FFFFFF); when the closure
\* is initialized it dispatches one save, which carries both.
C9_HeaderSetsText ==
    [][calls' = calls + 1 =>
          \A c \in HeaderColorInputs :
              setHeaderColor(c) =>
                  LET text == IF c = "#FFFFFF" THEN "text-gray-800" ELSE "text-white"
                  IN  /\ state'.headerColor = c
                      /\ state'.textColor = text
                      /\ \A w \in Dispatched :
                            w.payload.headerColor = c /\ w.payload.textColor = text
                      /\ rendered.initialized =>
                            BagCardinality(inflight') = BagCardinality(inflight) + 1]_vars

\* setHeaderColor('#FFFFFF') ran after the load: memory and the save in
\* flight hold the header colour and the dark text colour.
C9_Witness ==
    /\ state.initialized
    /\ state.headerColor = "#FFFFFF"
    /\ state.textColor = "text-gray-800"
    /\ \E w \in BagToSet(inflight) :
          w.payload.headerColor = "#FFFFFF" /\ w.payload.textColor = "text-gray-800"

\* C10: after the load, textColor is written by setTextColor (its argument)
\* and by setHeaderColor (the contrast of the new header colour) and by
\* nothing else: the last of the two calls decides it.
C10_TextLastWriteWins ==
    [][state.initialized =>
          /\ calls' = calls + 1 =>
                /\ \A c \in TextColorInputs : setTextColor(c) => state'.textColor = c
                /\ \A c \in HeaderColorInputs :
                      setHeaderColor(c) =>
                          state'.textColor =
                              (IF c = "#FFFFFF" THEN "text-gray-800" ELSE "text-white")
          /\ state'.textColor # state.textColor =>
                \/ \E c \in TextColorInputs : setTextColor(c)
                \/ \E c \in HeaderColorInputs : setHeaderColor(c)]_vars

\* After a load from localStorage the header colour was set to white and the
\* text colour then overridden: the override stands.
C10_Witness ==
    /\ state.initialized
    /\ loadPath = "local"
    /\ state.headerColor = "#FFFFFF"
    /\ state.textColor = "text-black"
    /\ rendered = state

\* The step is neither a setter call, nor a step of the load, nor a render:
\* under Spec it is the end of a save.
SaveStep == calls' = calls /\ pc' = pc /\ rendered' = rendered

\* C11: a save that fails, by an error returned or by an exception, leaves
\* memory and every localStorage entry as they were, that is as the setters
\* left them, and dispatches nothing: the failed save leaves the saves in
\* flight and no save joins them.
C11_FailedSaveKeepsLocal ==
    [][SaveStep =>
          \A w \in BagToSet(inflight) :
              (SaveError(w) \/ SaveThrew(w)) =>
                  /\ state' = state
                  /\ localStorage' = localStorage
                  /\ inflight' = inflight (-) SetToBag({w})]_vars

\* setAvatarColor ran after the load and its save failed with an error:
\* memory and localStorage hold the colour, nothing is in flight.
C11_Witness ==
    /\ toastShown
    /\ calls = 1
    /\ inflight = EmptyBag
    /\ state.avatarColor = "#000000"
    /\ localStorage["praxis-avatar-color"] = "#000000"

C13_AnySaveCanLandNext ==
    \A w \in BagToSet(inflight) : ENABLED SaveApplied(w)

\* setAvatarColor ran, then setMainColor.  The later save has been applied
\* (the row holds both colours) and the earlier one, which carries the old
\* main colour, is still in flight: once applied it leaves the row with the
\* old main colour while memory and localStorage hold the new one.
C13_Witness ==
    /\ remote.present
    /\ "mainColor" \in DOMAIN remote.settings
    /\ remote.settings.mainColor = "#000000"
    /\ remote.settings.avatarColor = "#000000"
    /\ state.mainColor = "#000000"
    /\ localStorage["praxis-main-color"] = "#000000"
    /\ \E w \in BagToSet(inflight) :
          /\ w.payload.avatarColor = "#000000"
          /\ w.payload.mainColor = "#F3F4F6"
          /\ ENABLED SaveApplied(w)

\* After this step memory, localStorage and every save the step dispatched
\* hold value v in field f.
Held(f, key, v) ==
    /\ state'[f] = v
    /\ localStorage'[key] = v
    /\ \A w \in Dispatched : w.payload[f] = v

\* The same for key k of a status map, cached as JSON text.
HeldAt(f, key, k, v) ==
    /\ At(state'[f], k) = v
    /\ At(JSONparse(localStorage'[key]).value, k) = v
    /\ \A w \in Dispatched : At(w.payload[f], k) = v

\* C14: a save is dispatched by a setter call only, and in the step that
\* dispatches it memory and localStorage already hold the value of the
\* call: no save is in flight, let alone applied, before they do.
C14_LocalBeforeRemote ==
    [][/\ Dispatched # {} => calls' = calls + 1
       /\ calls' = calls + 1 =>
              /\ \A c \in HeaderColorInputs :
                    setHeaderColor(c) => Held("headerColor", "praxis-header-color", c)
              /\ \A c \in ColorInputs :
                    /\ setAvatarColor(c) => Held("avatarColor", "praxis-avatar-color", c)
                    /\ setMainColor(c) => Held("mainColor", "praxis-main-color", c)
                    /\ setButtonColor(c) => Held("buttonColor", "praxis-button-color", c)
              /\ \A c \in TextColorInputs :
                    setTextColor(c) => Held("textColor", "praxis-text-color", c)
              /\ \A k \in StatusKeyInputs, c \in StatusColorInputs :
                    setCaseStatusColor(k, c) =>
                        HeldAt("caseStatusColors", "praxis-case-status-colors", k, c)
              /\ \A k \in OtherStatusKeyInputs, c \in StatusColorInputs :
                    /\ setTaskStatusColor(k, c) =>
                          HeldAt("taskStatusColors", "praxis-task-status-colors", k, c)
                    /\ setCaseStatusTextColor(k, c) =>
                          HeldAt("caseStatusTextColors",
                                 "praxis-case-status-text-colors", k, c)]_vars

\* setTaskStatusColor ran after the load: its save is in flight, not yet
\* applied, and localStorage holds the colour.
C14_Witness ==
    /\ state.initialized
    /\ \E w \in BagToSet(inflight) : At(w.payload.taskStatusColors, "completed") = "#000000"
    /\ At(JSONparse(localStorage["praxis-task-status-colors"]).value, "completed") = "#000000"
    /\ \E w \in InitialWorlds : remote = w[2]

\* What a field takes from localStorage: the cached value or, for an absent
\* key, the hardcoded default.
CachedOrDefault(ls, f) ==
    CASE f = "headerColor" -> OrElse(ls["praxis-header-color"], "#8B9474")
      [] f = "avatarColor" -> OrElse(ls["praxis-avatar-color"], "#F5A65B")
      [] f = "textColor"   -> OrElse(ls["praxis-text-color"], "text-white")
      [] f = "mainColor"   -> OrElse(ls["praxis-main-color"], "#F3F4F6")
      [] f = "buttonColor" -> OrElse(ls["praxis-button-color"], "#8B9474")
      [] f = "caseStatusColors" ->
            ParsedOr(ls["praxis-case-status-colors"], DEFAULT_STATUS_COLORS)
      [] f = "taskStatusColors" ->
            ParsedOr(ls["praxis-task-status-colors"], DEFAULT_STATUS_COLORS)
      [] f = "caseStatusTextColors" ->
            ParsedOr(ls["praxis-case-status-text-colors"], DEFAULT_TEXT_COLORS)
      [] f = "currentStatusView" -> OrElse(ls["praxis-status-view"], "cases")

\* C15: the load takes its values from the remote row only when the fetch
\* returned a payload; in every other case it ends with `initialized' true
\* and every field at its cached value or, the key being absent, at its
\* hardcoded default.
C15_LocalFallback ==
    [][/\ (loadPath = "none" /\ loadPath' = "remote") =>
              pc = "fetching" /\ remote.row /\ remote.present
       /\ (pc \in {"start", "fetching"} /\ pc' # pc /\ loadPath' = "local") =>
              /\ state'.initialized
              /\ \A f \in PreferenceFields :
                    state'[f] = CachedOrDefault(localStorage, f)]_vars

\* C16: a save that finds no user issues no update and raises no error: the
\* row and the toast stay as they were, and so do memory and localStorage,
\* which hold what the setter wrote.
C16_NoUserNoUpdate ==
    [][SaveStep =>
          \A w \in BagToSet(inflight) :
              SaveNoUser(w) =>
                  /\ remote' = remote
                  /\ toastShown' = toastShown
                  /\ state' = state
                  /\ localStorage' = localStorage
                  /\ inflight' = inflight (-) SetToBag({w})]_vars

\* The user has a row with settings but the load found no session and took
\* its values from localStorage; setButtonColor then ran and its save ended:
\* memory and localStorage hold the colour, the row was not written.
C16_Witness ==
    /\ loadPath = "local"
    /\ rendered.initialized
    /\ remote = RowWith(PartialSettings)
    /\ state.buttonColor = "#000000"
    /\ localStorage["praxis-button-color"] = "#000000"
    /\ inflight = EmptyBag
    /\ ~toastShown

\* The fields loadFromLocalStorage reads back from the key their setter
\* writes.
CachedFields ==
    { <<"headerColor", "praxis-header-color">>,
      <<"avatarColor", "praxis-avatar-color">>,
      <<"mainColor", "praxis-main-color">>,
      <<"buttonColor", "praxis-button-color">>,
      <<"currentStatusView", "praxis-status-view">> }

\* C19: when the load completes from localStorage, a field whose setter ran
\* while the load was in flight (its key is cached: the page was opened with
\* none of these keys) keeps the value the setter wrote.
C19_SetDuringLocalLoadKept ==
    [][(pc \in {"start", "fetching"} /\ pc' = "done" /\ loadPath' = "local") =>
          \A p \in CachedFields :
              localStorage[p[2]] # "" =>
                  state'[p[1]] = localStorage[p[2]] /\ state'[p[1]] = state[p[1]]]_vars

\* setMainColor ran and was rendered while the load was in flight (the
\* render that holds the colour is not initialized), and the load then
\* completed from localStorage: memory holds the colour.
C19_Witness ==
    /\ pc = "done"
    /\ loadPath = "local"
    /\ state.initialized
    /\ ~rendered.initialized
    /\ rendered.mainColor = "#000000"
    /\ state.mainColor = "#000000"

\* The colour fields with the key their setter caches them under.
ColourKeys ==
    { <<"headerColor", "praxis-header-color">>,
      <<"avatarColor", "praxis-avatar-color">>,
      <<"textColor", "praxis-text-color">>,
      <<"mainColor", "praxis-main-color">>,
      <<"buttonColor", "praxis-button-color">> }

\* C20: when the load completes from a remote payload, a colour set while
\* the load was in flight is superseded: memory takes the payload's value or
\* the default, localStorage keeps the value set, no save was or is
\* dispatched for it; and after the load memory and localStorage change by
\* setter calls only, so the two stay apart until the next one.
C20_SetDuringRemoteLoadSuperseded ==
    [][/\ (pc = "fetching" /\ pc' = "done" /\ loadPath' = "remote") =>
              /\ inflight = EmptyBag /\ inflight' = EmptyBag
              /\ remote' = remote
              /\ localStorage' = localStorage
              /\ \A p \in ColourKeys :
                    localStorage[p[2]] # "" =>
                        state'[p[1]] = Expected(remote.settings, p[1])
       /\ (pc = "done" /\ calls' = calls) =>
              state' = state /\ localStorage' = localStorage]_vars

\* setAvatarColor ran while the load was in flight and the load completed
\* from a payload without avatar colour: memory holds the default,
\* localStorage the colour set, the row was not written.
C20_Witness ==
    /\ pc = "done"
    /\ loadPath = "remote"
    /\ state.avatarColor = "#F5A65B"
    /\ localStorage["praxis-avatar-color"] = "#000000"
    /\ inflight = EmptyBag
    /\ remote = RowWith(PartialSettings)

\* C17: isLightColor returns true exactly when 299 R + 587 G + 114 B exceeds
\* 127500, with or without the leading '#': white is light, black is dark
\* and a colour whose luminance is exactly one half is not light.
C17_LightThreshold ==
    probe.called =>
        probe.light = (299 * probe.r + 587 * probe.g + 114 * probe.b > 127500)

\* C18: simulatePayment issues its mutations in sequence and once each.  A
\* payment row changes only from 'pending' to 'confirmed', by the update
\* issued for a user after the select found that row pending; the profile is
\* activated only by the update issued after the payment update returned;
\* when the profile update fails the payment stays 'confirmed' and the
\* subscription is not activated; whenever the call ends isLoading is false.
C18_PaymentSequence ==
    [][/\ button'.at # "idle" => button.user
       /\ (button'.at = "updatePayment" /\ button.at # "updatePayment") =>
              /\ button.at = "select"
              /\ button.pagamentos[button'.payment] = "pending"
       /\ button'.pagamentos # button.pagamentos =>
              /\ button.at = "updatePayment"
              /\ button.pagamentos[button.payment] = "pending"
              /\ button'.pagamentos =
                    [button.pagamentos EXCEPT ![button.payment] = "confirmed"]
       /\ (button'.at = "updateProfile" /\ button.at # "updateProfile") =>
              /\ button.at = "updatePayment"
              /\ button'.pagamentos[button.payment] = "confirmed"
       /\ button'.assinatura_ativa # button.assinatura_ativa =>
              /\ button.at = "updateProfile"
              /\ button.pagamentos[button.payment] = "confirmed"
              /\ button'.assinatura_ativa
       /\ (button.at = "updateProfile" /\ button'.at # "updateProfile") =>
              /\ button'.at = "idle"
              /\ button'.pagamentos[button.payment] = "confirmed"
              /\ button'.toast # "Pagamento confirmado e assinatura ativada!" =>
                    button'.assinatura_ativa = button.assinatura_ativa
       /\ button'.at = "idle" => ~button'.isLoading]_vars

\* The profile update failed after the payment update was applied: the
\* payment is confirmed, the subscription inactive, the call has ended.
C18_Witness ==
    /\ button.pagamentos = <<"confirmed">>
    /\ ~button.assinatura_ativa
    /\ button.toast = "Erro ao confirmar pagamento"
    /\ button.at = "idle"
    /\ ~button.isLoading

====
